---- MODULE Spec2Model ----
(***************************************************************************)
(* Configuration resolution and multi-run orchestration of the Gaussian    *)
(* recipes (src/src/quacc/recipes/gaussian/core.py) and the ORCA           *)
(* calculator (src/src/quacc/calculators/orca/orca.py).                     *)
(*                                                                         *)
(* Two specifications:                                                     *)
(*   Spec       one call of a recipe (static_job, relax_job, TS_job,       *)
(*              IRC_job) or one run through the Orca calculator, stepped   *)
(*              statement by statement;                                    *)
(*   SpecMerge  the settings merge applied to bounded layer inputs.        *)
(*                                                                         *)
(* run_and_summarize, the settings merge behind it and read_orca are       *)
(* imported by the sources but their code is not part of src/; they are    *)
(* modelled from the specification (sections 4.1 - 4.3 and 7).             *)
(***************************************************************************)
EXTENDS Integers, Sequences, FiniteSets, TLC

VARIABLES job, pc, args, calc_defaults, forward_calc, backward_calc,
          handed, running, forward_result, backward_result,
          combined_result, returned, raised, trace, engine_out,
          layers, phase, merged, nested, resolved

vars == <<job, pc, args, calc_defaults, forward_calc, backward_calc,
          handed, running, forward_result, backward_result,
          combined_result, returned, raised, trace, engine_out,
          layers, phase, merged, nested, resolved>>

jobVars == <<job, pc, args, calc_defaults, forward_calc, backward_calc,
             handed, running, forward_result, backward_result,
             combined_result, returned, raised, trace, engine_out>>

mergeVars == <<layers, phase, merged, nested, resolved>>

(***************************************************************************)
(* Bounds of the model and defaults of the program.                        *)
(***************************************************************************)
\* IRC_job(..., irc_points: int = 20, ...)
DefaultIrcPoints == 20
\* IRC_job(..., stepsize: int = 10, ...)
DefaultStepsize == 10
\* static_job(..., charge: int = 0, ...)
DefaultCharge == 0
\* static_job(..., spin_multiplicity: int = 1, ...)
DefaultMult == 1
\* irc_points ranges over DefaultIrcPoints .. MaxIrcPoints
MaxIrcPoints == 21
\* stepsize ranges over DefaultStepsize .. MaxStepsize
MaxStepsize == 11
\* charge ranges over DefaultCharge .. MaxCharge
MaxCharge == 1

(***************************************************************************)
(* Python values.  A dict is a function whose domain is its key set; the   *)
(* values are tagged so that values of different Python types compare      *)
(* unequal.  Remove is the removal sentinel quacc.Remove.                  *)
(***************************************************************************)
Remove == [kind |-> "Remove"]
PyStr(s) == [kind |-> "str", val |-> s]
PyInt(n) == [kind |-> "int", val |-> n]
PyList(q) == [kind |-> "list", val |-> q]

EmptyDict == [k \in {} |-> Remove]

\* Python's  a | b  on dicts: the right operand wins on common keys.
DictUnion(a, b) ==
    [k \in (DOMAIN a) \cup (DOMAIN b) |-> IF k \in DOMAIN b THEN b[k] ELSE a[k]]

\* Python's  d[k] = v
DictSet(d, k, v) ==
    [x \in (DOMAIN d) \cup {k} |-> IF x = k THEN v ELSE d[x]]

\* Python's  d.copy(): a new dict with the same keys bound to the same values.
DictCopy(d) == [k \in DOMAIN d |-> d[k]]

\* Python's  d[k] += suffix  for a str value: rebinds d[k] to the
\* concatenation; KeyError when k is missing (callers guard on that).
StrAppend(d, k, suffix) ==
    [d EXCEPT ![k] = PyStr(@.val \o suffix)]

None == [kind |-> "None"]

\* Python's  (x or {})  for x a dict or None: None and the empty dict are falsy.
OrEmpty(x) == IF x = None THEN EmptyDict ELSE x

(***************************************************************************)
(* SettingsMerger (specification, section 4.1): merge(base, *layers).      *)
(* Layers are applied in order and the last layer that sets a key gives    *)
(* its value (a list is replaced wholesale); a key mapped to the removal   *)
(* sentinel in any of the mappings is absent from the result, also when a  *)
(* later layer supplies it again.                                          *)
(***************************************************************************)
AllKeys(all) == UNION {DOMAIN all[i] : i \in 1..Len(all)}

RemovedKeys(all) ==
    {k \in AllKeys(all) : \E i \in 1..Len(all) : k \in DOMAIN all[i] /\ all[i][k] = Remove}

LastSetter(all, k) ==
    CHOOSE i \in 1..Len(all) :
        /\ k \in DOMAIN all[i]
        /\ \A j \in (i+1)..Len(all) : k \notin DOMAIN all[j]

\* A merge that overrides but never removes: the sentinel stays as a value.
merge_keeps_sentinel(base, ls) ==
    LET all == <<base>> \o ls
    IN  [k \in AllKeys(all) |-> all[LastSetter(all, k)][k]]

\* A merge that honours the sentinel in the last layer only and skips the
\* sentinel entries of the earlier mappings.
merge_last_layer_removes(base, ls) ==
    LET all == <<base>> \o ls
        last == all[Len(all)]
        gone == {k \in DOMAIN last : last[k] = Remove}
        sets(k) == {i \in 1..Len(all) : k \in DOMAIN all[i] /\ all[i][k] # Remove}
        top(k) == CHOOSE i \in sets(k) : \A j \in sets(k) : j <= i
    IN  [k \in {x \in AllKeys(all) \ gone : sets(x) # {}} |-> all[top(k)][k]]

merge(base, ls) ==
    LET all == <<base>> \o ls
    IN  [k \in AllKeys(all) \ RemovedKeys(all) |-> all[LastSetter(all, k)][k]]

(***************************************************************************)
(* The recipes of core.py.  Each recipe builds calc_defaults and calls     *)
(* run_and_summarize; RunArgs is the argument list of that call.           *)
(***************************************************************************)
RunArgs(charge, mult, defaults, swaps, fields) ==
    [charge |-> charge, spin_multiplicity |-> mult,
     calc_defaults |-> defaults, calc_swaps |-> swaps,
     additional_fields |-> fields]

static_calc_defaults(charge, mult, xc, basis) ==
    ("chk" :> PyStr("Gaussian.chk")) @@ ("xc" :> PyStr(xc)) @@ ("basis" :> PyStr(basis))
    @@ ("charge" :> PyInt(charge)) @@ ("mult" :> PyInt(mult))
    @@ ("dispersion" :> PyStr("empiricaldispersion=gd3"))
    @@ ("scf" :> PyList(<<"maxcycle=250", "xqc">>))
    @@ ("ioplist" :> PyList(<<"2/9=2000">>))

\* A recipe that forgets to pass the caller's overrides on.
static_job_drops_kwargs(charge, mult, xc, basis, additional_fields, calc_kwargs) ==
    RunArgs(charge, mult, static_calc_defaults(charge, mult, xc, basis), EmptyDict,
            DictUnion("name" :> PyStr("Gaussian Static"), OrEmpty(additional_fields)))

\* A recipe that passes defaults and overrides in the wrong order.
static_job_swapped(charge, mult, xc, basis, additional_fields, calc_kwargs) ==
    RunArgs(charge, mult, calc_kwargs, static_calc_defaults(charge, mult, xc, basis),
            DictUnion("name" :> PyStr("Gaussian Static"), OrEmpty(additional_fields)))

static_job(charge, mult, xc, basis, additional_fields, calc_kwargs) ==
    RunArgs(charge, mult, static_calc_defaults(charge, mult, xc, basis), calc_kwargs,
            DictUnion("name" :> PyStr("Gaussian Static"), OrEmpty(additional_fields)))

relax_calc_defaults(charge, mult, xc, basis, freq) ==
    LET d == ("chk" :> PyStr("Gaussian.chk")) @@ ("xc" :> PyStr(xc))
             @@ ("basis" :> PyStr(basis))
             @@ ("charge" :> PyInt(charge)) @@ ("mult" :> PyInt(mult))
             @@ ("opt" :> PyStr(""))
             @@ ("dispersion" :> PyStr("empiricaldispersion=gd3"))
             @@ ("scf" :> PyList(<<"maxcycle=250", "xqc">>))
             @@ ("ioplist" :> PyList(<<"2/9=2000">>))
    IN  IF freq THEN DictSet(d, "freq", PyStr("")) ELSE d

relax_job(charge, mult, xc, basis, freq, additional_fields, calc_kwargs) ==
    RunArgs(charge, mult, relax_calc_defaults(charge, mult, xc, basis, freq), calc_kwargs,
            DictUnion("name" :> PyStr("Gaussian Relax"), OrEmpty(additional_fields)))

TS_calc_defaults(charge, mult, xc, basis) ==
    ("chk" :> PyStr("Gaussian.chk")) @@ ("xc" :> PyStr(xc)) @@ ("basis" :> PyStr(basis))
    @@ ("charge" :> PyInt(charge)) @@ ("mult" :> PyInt(mult))
    @@ ("opt" :> PyStr("calcfc,ts,noeigentest")) @@ ("freq" :> PyStr(""))
    @@ ("dispersion" :> PyStr("empiricaldispersion=gd3"))
    @@ ("scf" :> PyList(<<"maxcycle=250", "xqc">>))
    @@ ("ioplist" :> PyList(<<"2/9=2000">>))

TS_job(charge, mult, xc, basis, additional_fields, calc_kwargs) ==
    RunArgs(charge, mult, TS_calc_defaults(charge, mult, xc, basis), calc_kwargs,
            DictUnion("name" :> PyStr("Gaussian TS"), OrEmpty(additional_fields)))

\* f"calcfc,maxpoints={irc_points},stepsize={stepsize},maxcycle=100"
IRC_directive(irc_points, stepsize) ==
    "calcfc,maxpoints=" \o ToString(irc_points) \o ",stepsize="
        \o ToString(stepsize) \o ",maxcycle=100"

IRC_calc_defaults(charge, mult, xc, basis, irc_points, stepsize) ==
    ("chk" :> PyStr("Gaussian.chk")) @@ ("xc" :> PyStr(xc)) @@ ("basis" :> PyStr(basis))
    @@ ("charge" :> PyInt(charge)) @@ ("mult" :> PyInt(mult))
    @@ ("dispersion" :> PyStr("empiricaldispersion=gd3"))
    @@ ("irc" :> PyStr(IRC_directive(irc_points, stepsize)))
    @@ ("iop" :> PyList(<<"7/33=1", "2/9=2000">>))
    @@ ("scf" :> PyList(<<"maxcycle=250", "xqc">>))

\* calc_defaults.copy() followed by  <copy>["irc"] += suffix, without the copy:
\* the branch is the shared base itself.
IRC_compose_nocopy(base, suffix) ==
    LET d == StrAppend(base, "irc", suffix)
    IN  [base |-> d, branch |-> d]

\* forward_calc = calc_defaults.copy(); forward_calc["irc"] += ",forward"
\* (and the same for backward_calc with ",reverse").  The result names the
\* shared base after the statement and the branch's own dict.
IRC_compose(base, suffix) ==
    [base |-> base, branch |-> StrAppend(DictCopy(base), "irc", suffix)]

\* The forward call without calc_swaps.
IRC_forward_run_args_no_swaps(a, calc) ==
    RunArgs(a.charge, a.spin_multiplicity, calc, EmptyDict,
            DictUnion("name" :> PyStr("Gaussian Forward IRC"),
                      OrEmpty(a.additional_fields)))

IRC_forward_run_args(a, calc) ==
    RunArgs(a.charge, a.spin_multiplicity, calc, a.calc_kwargs,
            DictUnion("name" :> PyStr("Gaussian Forward IRC"),
                      OrEmpty(a.additional_fields)))

IRC_backward_run_args(a, calc) ==
    RunArgs(a.charge, a.spin_multiplicity, calc, a.calc_kwargs,
            DictUnion("name" :> PyStr("Gaussian Backward IRC"),
                      OrEmpty(a.additional_fields)))

IRC_combined(fwd, bwd) ==
    [forward_irc |-> fwd, backward_irc |-> bwd,
     name |-> PyStr("Gaussian IRC (Forward and Backward)")]

\* RunSchema is imported under  if TYPE_CHECKING:  only, so the name is not
\* bound when the module runs.
RunSchema_bound == FALSE

(***************************************************************************)
(* The ORCA calculator.                                                    *)
(***************************************************************************)
Orca_default_input_settings ==
    ("functional" :> PyStr("wb97x-d3bj")) @@ ("basis" :> PyStr("def2-tzvp"))

\* orca.py ends inside the parameter list of  def calculate(self, atoms: At
\* the parenthesis is never closed, so the file does not compile.
Orca_module_compiles == FALSE

\* from msilib.schema import Class, at the top of orca.py: msilib exists on
\* Windows only and was removed in Python 3.13; where it is missing the
\* import of the module raises ModuleNotFoundError and no Orca can be built.
\* The import compiles the whole file before its first statement runs.
Orca_module_import(has_msilib) ==
    IF ~Orca_module_compiles THEN "SyntaxError"
    ELSE IF has_msilib THEN "imported" ELSE "ModuleNotFoundError"

\* FileIOCalculator.__init__(self, restart=None, ignore_bad_restart_file=True):
\* the base initialiser of ase starts with self.atoms = None, replacing the
\* value just assigned; the other attributes set by Orca.__init__ are kept.
FileIOCalculator_init(self) == [self EXCEPT !.atoms = None]

Orca_init(input_settings, charge, mult) ==
    FileIOCalculator_init(
        [atoms |-> PyStr("inp.xyz"), input_settings |-> input_settings,
         charge |-> charge, spin_multiplicity |-> mult,
         solvation |-> None, write_property_json |-> TRUE])

\* read_orca (specification, section 4.2 parse_output): the parsed results,
\* ParseError when an expected section is absent, MissingArtifactError when
\* the output file does not exist.
read_orca(artifact) ==
    CASE artifact = "complete" -> [raises |-> "none", results |-> "properties"]
      [] artifact = "no_section" -> [raises |-> "ParseError", results |-> "none"]
      [] artifact = "absent" -> [raises |-> "MissingArtifactError", results |-> "none"]

\* Orca.read_results:  return read_orca(self.label)
read_results(artifact) == read_orca(artifact)

(***************************************************************************)
(* JobRunner (specification, sections 4.3 and 7): run_and_summarize.       *)
(***************************************************************************)
\* the resolved configuration handed to the engine adapter
run_flags(ra) == merge(ra.calc_defaults, <<ra.calc_swaps>>)

\* parse_output of the adapter in use
parse_output(adapter, artifact) ==
    IF adapter = "orca" THEN read_results(artifact) ELSE read_orca(artifact)

\* the result envelope of one run
summarize(adapter, exit, artifact, fields) ==
    IF exit # 0
    THEN [status |-> "failure", diagnostic |-> "EngineInvocationError",
          fields |-> fields]
    ELSE LET p == parse_output(adapter, artifact)
         IN  IF p.raises # "none"
             THEN [status |-> "failure", diagnostic |-> p.raises, fields |-> fields]
             ELSE [status |-> "success", diagnostic |-> "", fields |-> fields]

NoResult == [status |-> "none"]

(***************************************************************************)
(* Inputs of a call.                                                       *)
(***************************************************************************)
Charges == DefaultCharge..MaxCharge
Mults == {DefaultMult}
IrcPointValues == DefaultIrcPoints..MaxIrcPoints
StepsizeValues == DefaultStepsize..MaxStepsize
AdditionalFieldChoices == {None, "name" :> PyStr("custom")}

\* **calc_kwargs: keyword overrides; a named parameter of the recipe
\* (charge, xc, basis, ...) cannot appear among them.
KwargValues ==
    [irc |-> {Remove, PyStr("calcfc,maxpoints=5")},
     dispersion |-> {Remove, PyStr("empiricaldispersion=gd3bj")},
     scf |-> {Remove, PyList(<<"qc">>)}]

KwargChoices ==
    UNION { {f \in [ks -> UNION {KwargValues[k] : k \in DOMAIN KwargValues}] :
                \A k \in ks : f[k] \in KwargValues[k]} :
            ks \in SUBSET (DOMAIN KwargValues) }

ExitCodes == {0, 1}
Artifacts == {"complete", "no_section", "absent"}

SingleRunJobs == {"static_job", "relax_job", "TS_job", "orca"}

NoArgs == [charge |-> DefaultCharge, spin_multiplicity |-> DefaultMult,
           additional_fields |-> None, calc_kwargs |-> EmptyDict]

(***************************************************************************)
(* One call: Init is the state before the call.                            *)
(***************************************************************************)
InitJob ==
    /\ job = "none" /\ pc = "idle" /\ args = NoArgs
    /\ calc_defaults = EmptyDict /\ forward_calc = EmptyDict
    /\ backward_calc = EmptyDict
    /\ handed = <<>> /\ running = {} /\ engine_out = <<>>
    /\ forward_result = NoResult /\ backward_result = NoResult
    /\ combined_result = NoResult /\ returned = NoResult
    /\ raised = "none" /\ trace = <<>>

InitMergeIdle ==
    /\ layers = [n \in {"A", "B", "C"} |-> EmptyDict] /\ phase = "off" /\ merged = EmptyDict
    /\ nested = EmptyDict /\ resolved = EmptyDict

Init == InitJob /\ InitMergeIdle

\* run_and_summarize up to the invocation of the engine: resolve the
\* configuration, raise ConfigurationError when it is found unusable, else
\* hand it to the adapter and start the engine.
SubmitRun(label, ra, cfg_ok, next_pc) ==
    IF cfg_ok
    THEN /\ handed' = Append(handed, [label |-> label, flags |-> run_flags(ra),
                                      fields |-> ra.additional_fields])
         /\ running' = running \cup {label}
         /\ trace' = Append(trace, <<label, "start">>)
         /\ pc' = next_pc
         /\ raised' = raised
    ELSE /\ raised' = "ConfigurationError"
         /\ pc' = "raised"
         /\ UNCHANGED <<handed, running, trace>>

\* run_and_summarize from the engine's exit on: the result envelope.
FinishRun(label, adapter, exit, artifact) ==
    /\ running' = running \ {label}
    /\ engine_out' = Append(engine_out,
                            [label |-> label, exit |-> exit, artifact |-> artifact])
    /\ trace' = Append(trace, <<label, "end">>)

LastFields == handed[Len(handed)].fields

StaticJob_Call ==
    /\ pc = "idle"
    /\ \E charge \in Charges, mult \in Mults, fields \in AdditionalFieldChoices,
          kw \in KwargChoices, cfg_ok \in BOOLEAN :
        /\ job' = "static_job"
        /\ args' = [charge |-> charge, spin_multiplicity |-> mult,
                    additional_fields |-> fields, calc_kwargs |-> kw]
        /\ SubmitRun("run", static_job(charge, mult, "wb97xd", "def2tzvp", fields, kw),
                     cfg_ok, "running")
    /\ UNCHANGED <<calc_defaults, forward_calc, backward_calc, forward_result,
                   backward_result, combined_result, returned, engine_out>>
    /\ UNCHANGED mergeVars

RelaxJob_Call ==
    /\ pc = "idle"
    /\ \E charge \in Charges, mult \in Mults, freq \in BOOLEAN,
          fields \in AdditionalFieldChoices, kw \in KwargChoices,
          cfg_ok \in BOOLEAN :
        /\ job' = "relax_job"
        /\ args' = [charge |-> charge, spin_multiplicity |-> mult, freq |-> freq,
                    additional_fields |-> fields, calc_kwargs |-> kw]
        /\ SubmitRun("run", relax_job(charge, mult, "wb97xd", "def2tzvp", freq, fields, kw),
                     cfg_ok, "running")
    /\ UNCHANGED <<calc_defaults, forward_calc, backward_calc, forward_result,
                   backward_result, combined_result, returned, engine_out>>
    /\ UNCHANGED mergeVars

TSJob_Call ==
    /\ pc = "idle"
    /\ \E charge \in Charges, mult \in Mults, fields \in AdditionalFieldChoices,
          kw \in KwargChoices, cfg_ok \in BOOLEAN :
        /\ job' = "TS_job"
        /\ args' = [charge |-> charge, spin_multiplicity |-> mult,
                    additional_fields |-> fields, calc_kwargs |-> kw]
        /\ SubmitRun("run", TS_job(charge, mult, "wb97xd", "def2svp", fields, kw),
                     cfg_ok, "running")
    /\ UNCHANGED <<calc_defaults, forward_calc, backward_calc, forward_result,
                   backward_result, combined_result, returned, engine_out>>
    /\ UNCHANGED mergeVars

\* One run of the job runner through the Orca calculator: the module is
\* imported, the calculator built and the run submitted.  Whether msilib
\* exists depends on the platform the program runs on; the import fails
\* before that question arises when the file does not compile.
Orca_Call ==
    /\ pc = "idle"
    /\ \E charge \in Charges, mult \in Mults, cfg_ok \in BOOLEAN,
          has_msilib \in BOOLEAN :
        /\ job' = "orca"
        /\ args' = [charge |-> charge, spin_multiplicity |-> mult,
                    additional_fields |-> None, calc_kwargs |-> EmptyDict]
        /\ IF Orca_module_import(has_msilib) = "imported"
           THEN LET calc == Orca_init(Orca_default_input_settings, charge, mult)
                IN  SubmitRun("run",
                              RunArgs(calc.charge, calc.spin_multiplicity,
                                      calc.input_settings, EmptyDict,
                                      "name" :> PyStr("ORCA")),
                              cfg_ok, "running")
           ELSE /\ raised' = Orca_module_import(has_msilib)
                /\ pc' = "raised"
                /\ UNCHANGED <<handed, running, trace>>
    /\ UNCHANGED <<calc_defaults, forward_calc, backward_calc, forward_result,
                   backward_result, combined_result, returned, engine_out>>
    /\ UNCHANGED mergeVars

\* The engine of a single-run job ends; the job returns the envelope.
SingleRun_End ==
    /\ pc = "running" /\ job \in SingleRunJobs
    /\ \E exit \in ExitCodes, artifact \in Artifacts :
        /\ FinishRun("run", IF job = "orca" THEN "orca" ELSE "gaussian", exit, artifact)
        /\ returned' = summarize(IF job = "orca" THEN "orca" ELSE "gaussian",
                                 exit, artifact, LastFields)
    /\ pc' = "done"
    /\ UNCHANGED <<job, args, calc_defaults, forward_calc, backward_calc, handed,
                   forward_result, backward_result, combined_result, raised>>
    /\ UNCHANGED mergeVars

(***************************************************************************)
(* IRC_job, statement by statement.                                        *)
(***************************************************************************)
\* calc_defaults = {...}
IRC_Begin ==
    /\ pc = "idle"
    /\ \E charge \in Charges, mult \in Mults, irc_points \in IrcPointValues,
          stepsize \in StepsizeValues, fields \in AdditionalFieldChoices,
          kw \in KwargChoices :
        /\ args' = [charge |-> charge, spin_multiplicity |-> mult,
                    irc_points |-> irc_points, stepsize |-> stepsize,
                    additional_fields |-> fields, calc_kwargs |-> kw]
        /\ calc_defaults' = IRC_calc_defaults(charge, mult, "wb97xd", "def2svp",
                                              irc_points, stepsize)
    /\ job' = "IRC_job"
    /\ pc' = "irc_defaults"
    /\ UNCHANGED <<forward_calc, backward_calc, handed, running, forward_result,
                   backward_result, combined_result, returned, raised, trace,
                   engine_out>>
    /\ UNCHANGED mergeVars

\* forward_calc = calc_defaults.copy(); forward_calc["irc"] += ",forward"
IRC_ForwardCompose ==
    /\ pc = "irc_defaults"
    /\ LET c == IRC_compose(calc_defaults, ",forward")
       IN  calc_defaults' = c.base /\ forward_calc' = c.branch
    /\ pc' = "irc_fwd_ready"
    /\ UNCHANGED <<job, args, backward_calc, handed, running, forward_result,
                   backward_result, combined_result, returned, raised, trace,
                   engine_out>>
    /\ UNCHANGED mergeVars

\* forward_result = run_and_summarize(...): the call is entered
IRC_ForwardStart ==
    /\ pc = "irc_fwd_ready"
    /\ \E cfg_ok \in BOOLEAN :
        SubmitRun("forward_irc", IRC_forward_run_args(args, forward_calc),
                  cfg_ok, "irc_fwd_running")
    /\ UNCHANGED <<job, args, calc_defaults, forward_calc, backward_calc,
                   forward_result, backward_result, combined_result, returned,
                   engine_out>>
    /\ UNCHANGED mergeVars

\* forward_result = run_and_summarize(...): the call returns
IRC_ForwardEnd ==
    /\ pc = "irc_fwd_running"
    /\ \E exit \in ExitCodes, artifact \in Artifacts :
        /\ FinishRun("forward_irc", "gaussian", exit, artifact)
        /\ forward_result' = summarize("gaussian", exit, artifact, LastFields)
    /\ pc' = "irc_fwd_done"
    /\ UNCHANGED <<job, args, calc_defaults, forward_calc, backward_calc, handed,
                   backward_result, combined_result, returned, raised>>
    /\ UNCHANGED mergeVars

\* backward_calc = calc_defaults.copy(); backward_calc["irc"] += ",reverse"
IRC_BackwardCompose ==
    /\ pc = "irc_fwd_done"
    /\ LET c == IRC_compose(calc_defaults, ",reverse")
       IN  calc_defaults' = c.base /\ backward_calc' = c.branch
    /\ pc' = "irc_bwd_ready"
    /\ UNCHANGED <<job, args, forward_calc, handed, running, forward_result,
                   backward_result, combined_result, returned, raised, trace,
                   engine_out>>
    /\ UNCHANGED mergeVars

\* backward_result = run_and_summarize(...): the call is entered
IRC_BackwardStart ==
    /\ pc = "irc_bwd_ready"
    /\ \E cfg_ok \in BOOLEAN :
        SubmitRun("backward_irc", IRC_backward_run_args(args, backward_calc),
                  cfg_ok, "irc_bwd_running")
    /\ UNCHANGED <<job, args, calc_defaults, forward_calc, backward_calc,
                   forward_result, backward_result, combined_result, returned,
                   engine_out>>
    /\ UNCHANGED mergeVars

\* backward_result = run_and_summarize(...): the call returns
IRC_BackwardEnd ==
    /\ pc = "irc_bwd_running"
    /\ \E exit \in ExitCodes, artifact \in Artifacts :
        /\ FinishRun("backward_irc", "gaussian", exit, artifact)
        /\ backward_result' = summarize("gaussian", exit, artifact, LastFields)
    /\ pc' = "irc_bwd_done"
    /\ UNCHANGED <<job, args, calc_defaults, forward_calc, backward_calc, handed,
                   forward_result, combined_result, returned, raised>>
    /\ UNCHANGED mergeVars

\* The combined result assembled although the backward sub-run was not run.
IRC_Combine_after_forward ==
    /\ pc \in {"irc_fwd_done", "irc_bwd_done"}
    /\ combined_result' = IRC_combined(forward_result, backward_result)
    /\ trace' = Append(trace, <<"combined", "assembled">>)
    /\ pc' = "irc_combined"
    /\ UNCHANGED <<job, args, calc_defaults, forward_calc, backward_calc, handed,
                   running, forward_result, backward_result, returned, raised,
                   engine_out>>
    /\ UNCHANGED mergeVars

\* combined_result = {"forward_irc": ..., "backward_irc": ..., "name": ...}
IRC_Combine ==
    /\ pc = "irc_bwd_done"
    /\ combined_result' = IRC_combined(forward_result, backward_result)
    /\ trace' = Append(trace, <<"combined", "assembled">>)
    /\ pc' = "irc_combined"
    /\ UNCHANGED <<job, args, calc_defaults, forward_calc, backward_calc, handed,
                   running, forward_result, backward_result, returned, raised,
                   engine_out>>
    /\ UNCHANGED mergeVars

\* return RunSchema(**combined_result): evaluating the unbound name
\* RunSchema raises NameError; were it bound (a TypedDict), the call would
\* give the dict of its keyword arguments.
IRC_Return ==
    /\ pc = "irc_combined"
    /\ IF RunSchema_bound
       THEN returned' = combined_result /\ pc' = "done" /\ raised' = raised
       ELSE returned' = returned /\ pc' = "raised" /\ raised' = "NameError"
    /\ UNCHANGED <<job, args, calc_defaults, forward_calc, backward_calc, handed,
                   running, forward_result, backward_result, combined_result,
                   trace, engine_out>>
    /\ UNCHANGED mergeVars

Next ==
    \/ StaticJob_Call
    \/ RelaxJob_Call
    \/ TSJob_Call
    \/ Orca_Call
    \/ SingleRun_End
    \/ IRC_Begin
    \/ IRC_ForwardCompose
    \/ IRC_ForwardStart
    \/ IRC_ForwardEnd
    \/ IRC_BackwardCompose
    \/ IRC_BackwardStart
    \/ IRC_BackwardEnd
    \/ IRC_Combine
    \/ IRC_Return

Spec == Init /\ [][Next]_vars

(***************************************************************************)
(* The settings merge on bounded inputs: a base and two layers over the    *)
(* keys charge, scf and dispersion, every value possibly the sentinel.     *)
(***************************************************************************)
LayerValues ==
    [charge |-> {PyInt(c) : c \in Charges} \cup {Remove},
     scf |-> {PyList(<<"maxcycle=250", "xqc">>), PyList(<<"qc">>), Remove},
     dispersion |-> {PyStr("empiricaldispersion=gd3"), Remove}]

LayerChoices ==
    UNION { {f \in [ks -> UNION {LayerValues[k] : k \in DOMAIN LayerValues}] :
                \A k \in ks : f[k] \in LayerValues[k]} :
            ks \in SUBSET (DOMAIN LayerValues) }

\* the keys a recipe takes as named parameters, which **calc_kwargs cannot hold
NamedParameters == {"atoms", "charge", "spin_multiplicity", "xc", "basis",
                    "copy_files", "additional_fields"}

InitMerge ==
    /\ InitJob
    /\ layers \in [{"A", "B", "C"} -> LayerChoices]
    /\ phase = "input"
    /\ merged = EmptyDict /\ nested = EmptyDict /\ resolved = EmptyDict

\* merge(A, B, C)
Merge_Flat ==
    /\ phase = "input"
    /\ merged' = merge(layers.A, <<layers.B, layers.C>>)
    /\ phase' = "merged"
    /\ UNCHANGED <<layers, nested, resolved>>
    /\ UNCHANGED jobVars

\* merge(merge(A, B), C)
Merge_Nested ==
    /\ phase = "merged"
    /\ nested' = merge(merge(layers.A, <<layers.B>>), <<layers.C>>)
    /\ phase' = "nested"
    /\ UNCHANGED <<layers, merged, resolved>>
    /\ UNCHANGED jobVars

\* static_job(atoms, **C): the configuration the recipe resolves when the
\* caller's overrides are layer C
Resolve_Static ==
    /\ phase = "nested"
    /\ DOMAIN layers.C \cap NamedParameters = {}
    /\ resolved' = run_flags(static_job(DefaultCharge, DefaultMult, "wb97xd",
                                        "def2tzvp", None, layers.C))
    /\ phase' = "resolved"
    /\ UNCHANGED <<layers, merged, nested>>
    /\ UNCHANGED jobVars

NextMerge ==
    \/ Merge_Flat
    \/ Merge_Nested
    \/ Resolve_Static

SpecMerge == InitMerge /\ [][NextMerge]_vars

(***************************************************************************)
(* Properties.                                                             *)
(***************************************************************************)
IsRunResult(r) == r.status \in {"success", "failure"}

BothSubRunsEnded == Len(engine_out) = 2

IRC_Terminated == job = "IRC_job" /\ pc \in {"done", "raised"}

\* C1: in IRC_job, whatever the outcomes of the forward and the backward
\* sub-run, once both have been run the workflow returns a composite result
\* holding both entries forward_irc and backward_irc, each with its own
\* success or failure status.
C1_CompositeReturned ==
    (IRC_Terminated /\ BothSubRunsEnded) =>
        /\ pc = "done"
        /\ returned = IRC_combined(forward_result, backward_result)
        /\ IsRunResult(returned.forward_irc)
        /\ IsRunResult(returned.backward_irc)

\* The part of C1 the code does keep: a failed forward sub-run does not stop
\* the backward sub-run from being attempted, and both results are recorded.
IRC_BackwardAttemptedAfterFailure ==
    (job = "IRC_job" /\ combined_result # NoResult) =>
        /\ BothSubRunsEnded
        /\ IsRunResult(combined_result.forward_irc)
        /\ IsRunResult(combined_result.backward_irc)

LayerNames == {"A", "B", "C"}

\* C2: a key that any layer maps to the removal sentinel is absent from the
\* merged result, also when a later layer maps it to a concrete value; and
\* static_job called with dispersion (or any key) set to Remove resolves to
\* a configuration without that key although the defaults set it.
C2_RemovalIsTerminal ==
    /\ phase \in {"merged", "nested", "resolved"} =>
           \A n \in LayerNames : \A k \in DOMAIN layers[n] :
               layers[n][k] = Remove => k \notin DOMAIN merged
    /\ phase = "resolved" =>
           \A k \in DOMAIN layers.C :
               layers.C[k] = Remove => k \notin DOMAIN resolved

C2_Witness ==
    /\ phase = "resolved"
    /\ "scf" \in DOMAIN layers.B /\ layers.B["scf"] = Remove
    /\ "scf" \in DOMAIN layers.C /\ layers.C["scf"] = PyList(<<"qc">>)
    /\ "scf" \notin DOMAIN merged
    /\ "dispersion" \in DOMAIN layers.C /\ layers.C["dispersion"] = Remove
    /\ "dispersion" \in DOMAIN static_calc_defaults(DefaultCharge, DefaultMult,
                                                    "wb97xd", "def2tzvp")
    /\ "dispersion" \notin DOMAIN resolved

\* C3 as stated: merging [A, B, C] equals merging merge(A, B) with C, for
\* all A, B, C whose values may be the removal sentinel.
C3_Associative ==
    phase \in {"nested", "resolved"} => merged = nested

\* a key that A or B removes and C supplies with a concrete value
Resupplied ==
    {k \in DOMAIN layers.C :
        /\ layers.C[k] # Remove
        /\ \/ k \in DOMAIN layers.A /\ layers.A[k] = Remove
           \/ k \in DOMAIN layers.B /\ layers.B[k] = Remove}

\* C3 amended: merging [A, B, C] equals merging merge(A, B) with C whenever
\* C gives no concrete value to a key that A or B maps to the removal
\* sentinel.
C3_AssociativeUnlessResupplied ==
    phase \in {"nested", "resolved"} =>
        (Resupplied = {} => merged = nested)

C3_Witness ==
    /\ phase = "nested"
    /\ Resupplied = {}
    /\ \E k \in DOMAIN layers.B : layers.B[k] = Remove /\ k \in DOMAIN layers.A
                                  /\ layers.A[k] # Remove
    /\ layers.C # EmptyDict
    /\ merged = nested

IRC_NoIrcOverride == "irc" \notin DOMAIN args.calc_kwargs

IRC_ForwardDirective ==
    PyStr(IRC_directive(args.irc_points, args.stepsize) \o ",forward")

IRC_BackwardDirective ==
    PyStr(IRC_directive(args.irc_points, args.stepsize) \o ",reverse")

\* the directives the two sub-runs were configured with are the base
\* directive followed by ,forward and by ,reverse
IRC_DirectivesHanded ==
    /\ handed[1].label = "forward_irc" /\ handed[2].label = "backward_irc"
    /\ handed[1].flags["irc"] = IRC_ForwardDirective
    /\ handed[2].flags["irc"] = IRC_BackwardDirective
    /\ handed[1].flags["irc"] # handed[2].flags["irc"]
    /\ (args.irc_points = 20 /\ args.stepsize = 10) =>
          /\ handed[1].flags["irc"]
                 = PyStr("calcfc,maxpoints=20,stepsize=10,maxcycle=100,forward")
          /\ handed[2].flags["irc"]
                 = PyStr("calcfc,maxpoints=20,stepsize=10,maxcycle=100,reverse")

\* C4: without an override of irc, IRC_job produces a composite result of
\* exactly two labelled sub-results, the forward sub-run configured with
\* the directive calcfc,maxpoints=<irc_points>,stepsize=<stepsize>,
\* maxcycle=100,forward and the backward one with the same base directive
\* followed by ,reverse.
C4_CompositeWithDirectives ==
    (IRC_Terminated /\ BothSubRunsEnded /\ IRC_NoIrcOverride) =>
        /\ pc = "done"
        /\ DOMAIN returned = {"forward_irc", "backward_irc", "name"}
        /\ IRC_DirectivesHanded

\* The part of C4 the code does keep: the directives of the two sub-runs.
IRC_DirectivesAsComposed ==
    (job = "IRC_job" /\ Len(handed) = 2 /\ IRC_NoIrcOverride) => IRC_DirectivesHanded

\* C5: composing a sub-run's configuration leaves the shared base
\* calc_defaults as it was built: every key, irc and the lists iop and scf
\* among them, keeps its value through the forward composition and run,
\* and the backward configuration is the base with irc followed by
\* ,reverse only.
C5_BaseUnchanged ==
    (job = "IRC_job" /\ pc # "idle") =>
        /\ calc_defaults = IRC_calc_defaults(args.charge, args.spin_multiplicity,
                                             "wb97xd", "def2svp",
                                             args.irc_points, args.stepsize)
        /\ calc_defaults["irc"] = PyStr(IRC_directive(args.irc_points, args.stepsize))
        /\ calc_defaults["iop"] = PyList(<<"7/33=1", "2/9=2000">>)
        /\ calc_defaults["scf"] = PyList(<<"maxcycle=250", "xqc">>)
        /\ backward_calc # EmptyDict =>
              /\ backward_calc["irc"] = IRC_BackwardDirective
              /\ \A k \in DOMAIN calc_defaults \ {"irc"} :
                     backward_calc[k] = calc_defaults[k]
              /\ DOMAIN backward_calc = DOMAIN calc_defaults

C5_Witness ==
    /\ job = "IRC_job" /\ pc = "irc_bwd_ready"
    /\ forward_calc["irc"] = IRC_ForwardDirective
    /\ forward_result.status = "failure"
    /\ backward_calc["irc"] = IRC_BackwardDirective
    /\ calc_defaults["irc"] = PyStr(IRC_directive(args.irc_points, args.stepsize))

IRC_Order ==
    << <<"forward_irc", "start">>, <<"forward_irc", "end">>,
       <<"backward_irc", "start">>, <<"backward_irc", "end">>,
       <<"combined", "assembled">> >>

\* C6: the steps of IRC_job happen in the order forward start, forward end,
\* backward start, backward end, composite assembled; the sub-runs never
\* overlap; no composite result exists before both sub-runs have been
\* attempted.
C6_SequentialOrder ==
    job = "IRC_job" =>
        /\ Len(trace) <= Len(IRC_Order)
        /\ trace = SubSeq(IRC_Order, 1, Len(trace))
        /\ Cardinality(running) <= 1
        /\ (combined_result # NoResult \/ returned # NoResult) =>
              /\ BothSubRunsEnded
              /\ engine_out[1].label = "forward_irc"
              /\ engine_out[2].label = "backward_irc"
              /\ running = {}

C6_Witness ==
    /\ job = "IRC_job" /\ pc = "irc_combined"
    /\ trace = IRC_Order
    /\ combined_result = IRC_combined(forward_result, backward_result)

\* C7: a single-run job (static_job, relax_job, TS_job, a run through the
\* Orca calculator) whose engine exits non-zero, or whose output lacks an
\* expected section or does not exist, returns a result with failure status
\* and a diagnostic and raises nothing; the only exception raised is the
\* configuration error found before the engine is invoked.
C7_FailureIsReturned ==
    job \in SingleRunJobs =>
        /\ pc = "done" =>
              /\ raised = "none"
              /\ IsRunResult(returned)
              /\ (engine_out[1].exit # 0 \/ engine_out[1].artifact # "complete") =>
                    returned.status = "failure" /\ returned.diagnostic # ""
        /\ pc = "raised" =>
              raised = "ConfigurationError" /\ handed = <<>> /\ engine_out = <<>>
        /\ handed # <<>> => raised = "none"
        /\ engine_out # <<>> => pc = "done"

\* The part of C7 the code does keep: in a run whose module was imported (the
\* recipes of core.py; orca.py never is), a failure of the engine or of the parse is returned as a failed
\* result and only the configuration error is raised.
FailureIsReturnedOnceImported ==
    (job \in SingleRunJobs /\ raised \notin {"SyntaxError", "ModuleNotFoundError"}) =>
        /\ pc = "done" =>
              /\ raised = "none"
              /\ IsRunResult(returned)
              /\ (engine_out[1].exit # 0 \/ engine_out[1].artifact # "complete") =>
                    returned.status = "failure" /\ returned.diagnostic # ""
        /\ pc = "raised" =>
              raised = "ConfigurationError" /\ handed = <<>> /\ engine_out = <<>>
        /\ handed # <<>> => raised = "none"
        /\ engine_out # <<>> => pc = "done"

SentinelFree(d) == \A k \in DOMAIN d : d[k] # Remove

\* C8: when no mapping holds the sentinel, the merge gives every key the
\* value of the last mapping that sets it, a list being replaced as a whole
\* and the keys an override does not mention being kept; base
\* {scf: [maxcycle=250, xqc], charge: 0} with override {charge: 1} gives
\* {scf: [maxcycle=250, xqc], charge: 1}; and static_job resolves to its
\* defaults overridden key by key by the caller's overrides.
C8_LastLayerWins ==
    /\ (phase \in {"merged", "nested", "resolved"}
        /\ \A n \in LayerNames : SentinelFree(layers[n])) =>
           /\ merged = DictUnion(DictUnion(layers.A, layers.B), layers.C)
           /\ \A k \in DOMAIN layers.A \ (DOMAIN layers.B \cup DOMAIN layers.C) :
                  merged[k] = layers.A[k]
    /\ (/\ phase \in {"merged", "nested", "resolved"}
        /\ layers.A = ("scf" :> PyList(<<"maxcycle=250", "xqc">>)) @@ ("charge" :> PyInt(0))
        /\ layers.B = ("charge" :> PyInt(1))
        /\ layers.C = EmptyDict) =>
           merged = ("scf" :> PyList(<<"maxcycle=250", "xqc">>)) @@ ("charge" :> PyInt(1))
    /\ (phase = "resolved" /\ SentinelFree(layers.C)) =>
           resolved = DictUnion(static_calc_defaults(DefaultCharge, DefaultMult,
                                                     "wb97xd", "def2tzvp"),
                                layers.C)

C8_Witness ==
    /\ phase = "resolved"
    /\ \A n \in LayerNames : SentinelFree(layers[n])
    /\ "scf" \in DOMAIN layers.A /\ layers.A["scf"] = PyList(<<"maxcycle=250", "xqc">>)
    /\ "charge" \in DOMAIN layers.A /\ "charge" \in DOMAIN layers.B
    /\ layers.A["charge"] = PyInt(0) /\ layers.B["charge"] = PyInt(1)
    /\ "scf" \in DOMAIN layers.C /\ layers.C["scf"] = PyList(<<"qc">>)
    /\ merged["scf"] = PyList(<<"qc">>) /\ merged["charge"] = PyInt(1)
    /\ resolved["scf"] = PyList(<<"qc">>)
    /\ resolved["ioplist"] = PyList(<<"2/9=2000">>)

\* C9: no resolved configuration handed to an engine adapter maps a key to
\* the removal sentinel, for every recipe and every choice of overrides.
C9_NoSentinelHanded ==
    \A i \in 1..Len(handed) :
        \A k \in DOMAIN handed[i].flags : handed[i].flags[k] # Remove

C9_Witness ==
    /\ job = "relax_job" /\ pc = "running"
    /\ "dispersion" \in DOMAIN args.calc_kwargs
    /\ args.calc_kwargs["dispersion"] = Remove
    /\ "scf" \in DOMAIN args.calc_kwargs /\ args.calc_kwargs["scf"] = Remove
    /\ Len(handed) = 1
    /\ DOMAIN handed[1].flags \cap {"dispersion", "scf"} = {}
    /\ "opt" \in DOMAIN handed[1].flags

\* C10: IRC_job applies the caller's overrides last to both sub-runs, after
\* the direction suffix was appended: a concrete override of irc reaches
\* both sub-runs unchanged, without ,forward or ,reverse, and a removed irc
\* leaves neither sub-run an irc key.
C10_OverridesAppliedLast ==
    job = "IRC_job" =>
        \A i \in 1..Len(handed) :
            \A k \in DOMAIN args.calc_kwargs :
                IF args.calc_kwargs[k] = Remove
                THEN k \notin DOMAIN handed[i].flags
                ELSE /\ k \in DOMAIN handed[i].flags
                     /\ handed[i].flags[k] = args.calc_kwargs[k]

C10_Witness ==
    /\ job = "IRC_job" /\ Len(handed) = 2
    /\ "irc" \in DOMAIN args.calc_kwargs
    /\ args.calc_kwargs["irc"] = PyStr("calcfc,maxpoints=5")
    /\ handed[1].flags["irc"] = PyStr("calcfc,maxpoints=5")
    /\ handed[2].flags["irc"] = handed[1].flags["irc"]
    /\ forward_calc["irc"] = IRC_ForwardDirective
    /\ backward_calc["irc"] = IRC_BackwardDirective

====
